---- MODULE Spec2Model ----
(***************************************************************************)
(* A model of the teaching exercises of the repository:                    *)
(*   1a/ej1a1.py  get_user_ip            (plain-text HTTP GET client)       *)
(*   1a/ej1a3.py  MyHTTPRequestHandler   (GET /ip server, generic 404)      *)
(*   1b/ej1b3.py  do_GET, 404 branch     (custom JSON error body)           *)
(*   1c/ej1c2.py  GBFS station client and create_stations_dataframe        *)
(*   1d/ej1d1.py  pybikes wrappers and the __main__ demonstration           *)
(* Python strings are sequences of one-character strings, None is the      *)
(* model value None.                                                       *)
(***************************************************************************)
EXTENDS Integers, Sequences, FiniteSets, TLC

VARIABLES
    \* --- one handler instance of the sequential HTTPServer (1a, 1b) ---
    pc,              \* "idle" | "accepted" | "line" | "parsed" | "done"
    handler,         \* which exercise's handler class the server was built with
    command,         \* self.command
    path,            \* self.path
    headers,         \* self.headers: [xff, xri], a missing header is None
    client_address,  \* self.client_address = <<host, port>>
    client_ip,       \* do_GET's local client_ip, None while the /ip branch has not run
    response,        \* what was sent: [status, ctype, body]; status 0 = nothing yet
    \* --- several handler instances alive at once ---
    conn,            \* per connection, the fields of its handler instance
    \* --- the HTTP clients get_user_ip (1a) and get_stations_data (1c) ---
    http,            \* what requests.get did in the last call
    ret,             \* how the last call ended: [fn, raised, value]
    \* --- ej1c2.create_stations_dataframe ---
    fpc,             \* "idle" | "returned"
    stations_data,   \* the argument of the call
    df,              \* what the call returned
    \* --- the __main__ block of ej1d1 ---
    mpc,             \* "start" | "listed" | "searched" | "info" | "done" | "crashed"
    sistemas,
    sistemas_barcelona,
    info,
    estaciones,
    df_estaciones,
    exception        \* the exception that ended the program, None if none did

serverVars ==
    <<pc, handler, command, path, headers, client_address, client_ip, response>>
concVars == <<conn>>
clientVars == <<http, ret>>
frameVars == <<fpc, stations_data, df>>
mainVars ==
    <<mpc, sistemas, sistemas_barcelona, info, estaciones, df_estaciones, exception>>
vars == <<serverVars, concVars, clientVars, frameVars, mainVars>>

\* None: a value no Python string of the model equals
None == <<"None">>

(***************************************************************************)
(* Bounds of the inputs.                                                   *)
(***************************************************************************)
MaxFwdLen == 3
MaxRealLen == 1
MaxTextLen == 2
MaxStations == 2
MaxEstaciones == 2

RECURSIVE SeqsUpTo(_, _)
SeqsUpTo(S, n) ==
    IF n = 0 THEN {<<>>}
    ELSE LET shorter == SeqsUpTo(S, n - 1)
         IN  shorter \cup {Append(s, c) : s \in shorter, c \in S}

Whitespace == {" ", "\t", "\n", "\r"}

\* A header value as the request parser of http.server hands it over: the
\* whitespace after the colon is gone, the rest of the line is kept.
Arrives(s) == s = <<>> \/ s[1] \notin Whitespace

FwdChars == {"1", ",", " "}
RealChars == {"9", "\"", "\\"}
FwdValues == {s \in SeqsUpTo(FwdChars, MaxFwdLen) : Arrives(s)} \cup {None}
RealValues == {s \in SeqsUpTo(RealChars, MaxRealLen) : Arrives(s)} \cup {None}
Hosts == {<<"h">>, <<"7">>}
Ports == {50000}
Commands == {"GET", "POST"}
Handlers == {"ej1a3", "ej1b3"}

P_ip == <<"/", "i", "p">>
P_unknown == <<"/", "u", "n", "k", "n", "o", "w", "n">>
Paths ==
    { P_ip,
      P_ip \o <<"?", "x", "=", "1">>,
      P_ip \o <<"/">>,
      P_ip \o <<" ">>,
      <<"/", "I", "P">>,
      <<"/", "i">>,
      <<"/">>,
      P_unknown }

(***************************************************************************)
(* str.split(",")[0] and str.strip()                                       *)
(***************************************************************************)
RECURSIVE split_first(_)
split_first(s) ==
    IF s = <<>> \/ Head(s) = "," THEN <<>>
    ELSE <<Head(s)>> \o split_first(Tail(s))

RECURSIVE lstrip(_)
lstrip(s) ==
    IF s # <<>> /\ Head(s) \in Whitespace THEN lstrip(Tail(s)) ELSE s

RECURSIVE rstrip(_)
rstrip(s) ==
    IF s # <<>> /\ s[Len(s)] \in Whitespace
    THEN rstrip(SubSeq(s, 1, Len(s) - 1))
    ELSE s

strip(s) == rstrip(lstrip(s))

\* Python truthiness of an Optional[str]
Truthy(v) == v # None /\ v # <<>>

(***************************************************************************)
(* MyHTTPRequestHandler._get_client_ip                                     *)
(***************************************************************************)
\* Variant: X-Real-IP is looked at before X-Forwarded-For
_get_client_ip_real_first(hdrs, addr) ==
    IF Truthy(hdrs.xri) THEN hdrs.xri
    ELSE IF Truthy(hdrs.xff) THEN strip(split_first(hdrs.xff))
    ELSE addr[1]

_get_client_ip(hdrs, addr) ==
    IF Truthy(hdrs.xff) THEN strip(split_first(hdrs.xff))
    ELSE IF Truthy(hdrs.xri) THEN hdrs.xri
    ELSE addr[1]

(***************************************************************************)
(* json.dumps of a dict of str and int values (default separators,         *)
(* insertion order).  A dict is a sequence of <<key, value>> pairs.        *)
(***************************************************************************)
JStr(s) == [t |-> "str", s |-> s, n |-> 0]
JInt(n) == [t |-> "int", s |-> <<>>, n |-> n]

Digit(d) == CASE d = 0 -> "0" [] d = 1 -> "1" [] d = 2 -> "2" [] d = 3 -> "3"
              [] d = 4 -> "4" [] d = 5 -> "5" [] d = 6 -> "6" [] d = 7 -> "7"
              [] d = 8 -> "8" [] d = 9 -> "9"

RECURSIVE int_str(_)
int_str(n) ==
    IF n < 10 THEN <<Digit(n)>> ELSE int_str(n \div 10) \o <<Digit(n % 10)>>

\* Variant: the string is put between the quotes as it is
json_escape_raw(s) == s

RECURSIVE json_escape(_)
json_escape(s) ==
    IF s = <<>> THEN <<>>
    ELSE LET c == Head(s)
             e == CASE c = "\"" -> <<"\\", "\"">>
                    [] c = "\\" -> <<"\\", "\\">>
                    [] c = "\t" -> <<"\\", "t">>
                    [] c = "\n" -> <<"\\", "n">>
                    [] c = "\r" -> <<"\\", "r">>
                    [] OTHER -> <<c>>
         IN  e \o json_escape(Tail(s))

json_dumps_str(s) == <<"\"">> \o json_escape(s) \o <<"\"">>

json_dumps_value(v) ==
    IF v.t = "str" THEN json_dumps_str(v.s) ELSE int_str(v.n)

RECURSIVE json_dumps_items(_)
json_dumps_items(d) ==
    IF d = <<>> THEN <<>>
    ELSE json_dumps_str(d[1][1]) \o <<":", " ">> \o json_dumps_value(d[1][2])
         \o (IF Len(d) > 1 THEN <<",", " ">> ELSE <<>>)
         \o json_dumps_items(Tail(d))

json_dumps(d) == <<"{">> \o json_dumps_items(d) \o <<"}">>

(***************************************************************************)
(* The responses of the handlers                                           *)
(***************************************************************************)
NoResponse == [status |-> 0, ctype |-> "", body |-> <<>>]

K_ip == <<"i", "p">>
K_error == <<"e", "r", "r", "o", "r">>
K_code == <<"c", "o", "d", "e">>
K_message == <<"m", "e", "s", "s", "a", "g", "e">>
S_NotFound == <<"N", "o", "t", " ", "F", "o", "u", "n", "d">>
S_Recurso == <<"R", "e", "c", "u", "r", "s", "o", " ">>
S_no_encontrado ==
    <<" ", "n", "o", " ", "e", "n", "c", "o", "n", "t", "r", "a", "d", "o">>

\* What a call of a handler method leaves behind: the local client_ip and
\* the response written to the socket.
Handled(ip, status, ctype, body) ==
    [client_ip |-> ip,
     response |-> [status |-> status, ctype |-> ctype, body |-> body]]

\* ej1a3.py, the /ip branch of do_GET
ip_response(hdrs, addr) ==
    LET ip == _get_client_ip(hdrs, addr)
        response_data == json_dumps(<<  <<K_ip, JStr(ip)>>  >>)
    IN  Handled(ip, 200, "application/json", response_data)

\* Variant: the else branch answers 400
not_found_1a_400(p) ==
    Handled(None, 400, "application/json",
            json_dumps(<<  <<K_error, JStr(S_NotFound)>>  >>))

\* ej1a3.py, the else branch of do_GET
not_found_1a(p) ==
    Handled(None, 404, "application/json",
            json_dumps(<<  <<K_error, JStr(S_NotFound)>>  >>))

\* Variant: the route is taken by every path that starts with "/ip"
do_GET_prefix(p, hdrs, addr) ==
    IF Len(p) >= Len(P_ip) /\ SubSeq(p, 1, Len(P_ip)) = P_ip
    THEN ip_response(hdrs, addr)
    ELSE not_found_1a(p)

\* ej1a3.py: MyHTTPRequestHandler.do_GET
do_GET(p, hdrs, addr) ==
    IF p = P_ip THEN ip_response(hdrs, addr) ELSE not_found_1a(p)

\* Variant: the message does not carry the requested path
error_info_no_path(p) ==
    << <<K_code, JInt(404)>>,
       <<K_message, JStr(S_Recurso \o S_no_encontrado)>> >>

\* ej1b3.py: error_info
error_info(p) ==
    << <<K_code, JInt(404)>>,
       <<K_message, JStr(S_Recurso \o p \o S_no_encontrado)>> >>

\* ej1b3.py: the else branch of do_GET
not_found_1b(p) ==
    Handled(None, 404, "application/json", json_dumps(error_info(p)))

\* ej1b3.py: do_GET.  Only its else branch is in the file; the route test and
\* the /ip branch are those the specification gives (sections 4.2 and 6).
do_GET_1b(p, hdrs, addr) ==
    IF p = P_ip THEN ip_response(hdrs, addr) ELSE not_found_1b(p)

\* BaseHTTPRequestHandler.send_error(501): the handler classes define do_GET
\* only, every other verb is answered by the base class.  The body is the
\* library's HTML error page, of which only the content type is kept here.
S_html == <<"<", "h", "t", "m", "l", ">">>
not_implemented ==
    Handled(None, 501, "text/html;charset=utf-8", S_html)

\* BaseHTTPRequestHandler.handle_one_request: mname = "do_" + command
dispatch(h, cmd, p, hdrs, addr) ==
    IF cmd # "GET" THEN not_implemented
    ELSE IF h = "ej1a3" THEN do_GET(p, hdrs, addr)
    ELSE do_GET_1b(p, hdrs, addr)

(***************************************************************************)
(* The sequential server of create_server / run_server: HTTPServer handles *)
(* one connection at a time, with a new handler instance for each.         *)
(***************************************************************************)
NoHeaders == [xff |-> None, xri |-> None]
NoAddress == <<None, 0>>

ServerInit ==
    /\ pc = "idle"
    /\ handler \in Handlers
    /\ command = ""
    /\ path = <<>>
    /\ headers = NoHeaders
    /\ client_address = NoAddress
    /\ client_ip = None
    /\ response = NoResponse

\* HTTPServer.get_request: a connection is accepted, the handler is built
accept ==
    /\ pc = "idle"
    /\ \E host \in Hosts, port \in Ports : client_address' = <<host, port>>
    /\ pc' = "accepted"
    /\ UNCHANGED <<handler, command, path, headers, client_ip, response>>

\* parse_request: the request line
parse_request_line ==
    /\ pc = "accepted"
    /\ \E cmd \in Commands, p \in Paths : command' = cmd /\ path' = p
    /\ pc' = "line"
    /\ UNCHANGED <<handler, headers, client_address, client_ip, response>>

\* parse_request: the headers
parse_headers ==
    /\ pc = "line"
    /\ \E xff \in FwdValues, xri \in RealValues :
          headers' = [xff |-> xff, xri |-> xri]
    /\ pc' = "parsed"
    /\ UNCHANGED <<handler, command, path, client_address, client_ip, response>>

\* handle_one_request: the method is looked up and run, the response is written
handle_one_request ==
    /\ pc = "parsed"
    /\ LET done == dispatch(handler, command, path, headers, client_address)
       IN  client_ip' = done.client_ip /\ response' = done.response
    /\ pc' = "done"
    /\ UNCHANGED <<handler, command, path, headers, client_address>>

\* the connection is closed and the handler instance discarded
finish ==
    /\ pc = "done"
    /\ pc' = "idle"
    /\ command' = ""
    /\ path' = <<>>
    /\ headers' = NoHeaders
    /\ client_address' = NoAddress
    /\ client_ip' = None
    /\ response' = NoResponse
    /\ UNCHANGED handler

\* No other connection is open beside the one being served
ConcIdle == conn = <<>>

\* No client function has been called
ClientIdle ==
    /\ http = [kind |-> "none", status_code |-> 0, text |-> <<>>, payload |-> None]
    /\ ret = [fn |-> "", raised |-> FALSE, value |-> None]

\* create_stations_dataframe has not been called
FrameIdle ==
    /\ fpc = "idle"
    /\ stations_data = None
    /\ df = None

\* The __main__ block of ej1d1 has not started
MainIdle ==
    /\ mpc = "start"
    /\ sistemas = <<>>
    /\ sistemas_barcelona = <<>>
    /\ info = None
    /\ estaciones = None
    /\ df_estaciones = None
    /\ exception = None

Init == ServerInit /\ ConcIdle /\ ClientIdle /\ FrameIdle /\ MainIdle

Next ==
    \/ accept /\ UNCHANGED <<concVars, clientVars, frameVars, mainVars>>
    \/ parse_request_line /\ UNCHANGED <<concVars, clientVars, frameVars, mainVars>>
    \/ parse_headers /\ UNCHANGED <<concVars, clientVars, frameVars, mainVars>>
    \/ handle_one_request /\ UNCHANGED <<concVars, clientVars, frameVars, mainVars>>
    \/ finish /\ UNCHANGED <<concVars, clientVars, frameVars, mainVars>>

Spec == Init /\ [][Next]_vars


(***************************************************************************)
(* Several connections open at once (a threaded or evented transport in    *)
(* place of HTTPServer): each has a handler instance of its own, and the   *)
(* steps of different instances interleave.                                *)
(***************************************************************************)
Conns == {"c1", "c2"}
ConcPaths == {P_ip, P_unknown}
ConcFwd == {None, <<"1">>}
ConcReal == {None, <<"9">>}

Instance(state, cmd, p, hdrs, addr, ip, resp) ==
    [pc |-> state, command |-> cmd, path |-> p, headers |-> hdrs,
     client_address |-> addr, client_ip |-> ip, response |-> resp]

IdleInstance == Instance("idle", "", <<>>, NoHeaders, NoAddress, None, NoResponse)

ConcInit ==
    /\ ServerInit
    /\ ClientIdle /\ FrameIdle /\ MainIdle
    /\ conn = [c \in Conns |-> IdleInstance]

conn_accept(c) ==
    /\ conn[c].pc = "idle"
    /\ \E host \in Hosts, port \in Ports :
          conn' = [conn EXCEPT ![c].pc = "accepted",
                               ![c].client_address = <<host, port>>]

conn_parse_request(c) ==
    /\ conn[c].pc = "accepted"
    /\ \E cmd \in Commands, p \in ConcPaths, xff \in ConcFwd, xri \in ConcReal :
          conn' = [conn EXCEPT ![c].pc = "parsed",
                               ![c].command = cmd,
                               ![c].path = p,
                               ![c].headers = [xff |-> xff, xri |-> xri]]

\* Variant: the request fields live on the class, so a handler serves the
\* request of whichever instance parsed one
conn_handle_shared_fields(c) ==
    /\ conn[c].pc = "parsed"
    /\ \E d \in Conns :
          /\ conn[d].pc = "parsed"
          /\ LET done == dispatch(handler, conn[d].command, conn[d].path,
                                  conn[d].headers, conn[d].client_address)
             IN  conn' = [conn EXCEPT ![c].pc = "done",
                                      ![c].client_ip = done.client_ip,
                                      ![c].response = done.response]

\* handle_one_request of instance c: do_GET reads self.path, self.headers and
\* self.client_address, and writes to self.wfile
conn_handle(c) ==
    /\ conn[c].pc = "parsed"
    /\ LET done == dispatch(handler, conn[c].command, conn[c].path,
                            conn[c].headers, conn[c].client_address)
       IN  conn' = [conn EXCEPT ![c].pc = "done",
                                ![c].client_ip = done.client_ip,
                                ![c].response = done.response]

conn_finish(c) ==
    /\ conn[c].pc = "done"
    /\ conn' = [conn EXCEPT ![c] = IdleInstance]

ConcNext ==
    \/ \E c \in Conns : conn_accept(c) /\ UNCHANGED <<serverVars, clientVars, frameVars, mainVars>>
    \/ \E c \in Conns : conn_parse_request(c) /\ UNCHANGED <<serverVars, clientVars, frameVars, mainVars>>
    \/ \E c \in Conns : conn_handle(c) /\ UNCHANGED <<serverVars, clientVars, frameVars, mainVars>>
    \/ \E c \in Conns : conn_finish(c) /\ UNCHANGED <<serverVars, clientVars, frameVars, mainVars>>

SpecConc == ConcInit /\ [][ConcNext]_vars


(***************************************************************************)
(* The HTTP clients: ej1a1.get_user_ip and ej1c2.get_stations_data.        *)
(* requests.get either raises (a transport error, an Exception) or gives   *)
(* a response with a status code, a text and, for response.json(), a       *)
(* payload: malformed (json() raises), or a parsed value.                  *)
(* Python values other than None carry their type: a dict is a function    *)
(* from its keys, a list a sequence.                                       *)
(***************************************************************************)
PDict(f) == <<"dict", f>>
PList(l) == <<"list", l>>
PStr(x) == <<"str", x>>
PNum(n) == <<"num", n>>
EmptyDict == PDict([k \in {} |-> None])

\* dict.get(k): None for a missing key
dict_get(d, k) == IF k \in DOMAIN d[2] THEN d[2][k] ELSE None

DataValues ==
    { PDict([stations |-> PList(<<>>)]),
      PDict([stations |-> PList(<<PDict([station_id |-> PStr("1")])>>)]),
      PDict([last_updated |-> PNum(0)]),
      None }

\* What response.json() can come to: malformed (it raises), or a parsed
\* value: a dict with or without the "data" member, a list, null
Malformed == <<"malformed", <<>>>>
Payloads ==
    {Malformed, PDict([ttl |-> PNum(0)]), EmptyDict, PList(<<>>), None}
    \cup {PDict([data |-> d, ttl |-> PNum(0)]) : d \in DataValues}

StatusCodes == {200, 201, 204, 301, 404, 500, 503}
Texts == SeqsUpTo({"1", "."}, MaxTextLen)
TransportErrors == {"ConnectionError", "Timeout", "SSLError"}

HttpResponse(code, text, payload) ==
    [kind |-> "response", status_code |-> code, text |-> text, payload |-> payload]
HttpRaise(e) ==
    [kind |-> e, status_code |-> 0, text |-> <<>>, payload |-> None]

\* How a block of code ends
Return(v) == [raised |-> FALSE, value |-> v]
Raise(e) == [raised |-> TRUE, value |-> <<e>>]

\* ej1a1.py: the try block of get_user_ip
get_user_ip_try(h) ==
    IF h.kind # "response" THEN Raise(h.kind)
    ELSE IF h.status_code = 200 THEN Return(h.text)
    ELSE Return(None)

\* ej1a1.py: get_user_ip, with its except Exception
get_user_ip(h) ==
    LET r == get_user_ip_try(h) IN IF r.raised THEN Return(None) ELSE r

\* response.json(), then json_data.get("data")
json_then_get_data(payload) ==
    IF payload = Malformed THEN Raise("JSONDecodeError")
    ELSE IF payload[1] # "dict" THEN Raise("AttributeError")
    ELSE Return(dict_get(payload, "data"))

\* ej1c2.py: the try block of get_stations_data
get_stations_data_try(h) ==
    IF h.kind # "response" THEN Raise(h.kind)
    ELSE IF h.status_code = 200 THEN json_then_get_data(h.payload)
    ELSE Return(None)

\* Variant: no except clause around the request
get_stations_data_unguarded(h) == get_stations_data_try(h)

\* ej1c2.py: get_stations_data, with its except Exception
get_stations_data(h) ==
    LET r == get_stations_data_try(h) IN IF r.raised THEN Return(None) ELSE r

call_get_user_ip ==
    \E h \in {HttpRaise(e) : e \in TransportErrors}
             \cup {HttpResponse(c, t, None) : c \in StatusCodes, t \in Texts} :
        /\ http' = h
        /\ ret' = [fn |-> "get_user_ip"] @@ get_user_ip(h)

call_get_stations_data ==
    \E h \in {HttpRaise(e) : e \in TransportErrors}
             \cup {HttpResponse(c, <<>>, p) : c \in StatusCodes, p \in Payloads} :
        /\ http' = h
        /\ ret' = [fn |-> "get_stations_data"] @@ get_stations_data(h)

ServerIdle == ServerInit /\ handler = "ej1a3"

ClientInit == ServerIdle /\ ConcIdle /\ ClientIdle /\ FrameIdle /\ MainIdle

ClientNext ==
    \/ call_get_user_ip /\ UNCHANGED <<serverVars, concVars, frameVars, mainVars>>
    \/ call_get_stations_data /\ UNCHANGED <<serverVars, concVars, frameVars, mainVars>>

SpecClient == ClientInit /\ [][ClientNext]_vars


(***************************************************************************)
(* ej1c2.create_stations_dataframe.  A DataFrame is its column labels and  *)
(* its rows; pd.DataFrame(list of dicts) takes the columns from the keys   *)
(* of the dicts, so an empty list gives a frame without columns.           *)
(***************************************************************************)
DataFrame(columns, rows) == <<"DataFrame", [columns |-> columns, rows |-> rows]>>

\* A row dict: its keys in insertion order, and its values
RowKeys(row) == [i \in 1..Len(row) |-> row[i][1]]
RowValues(row) == [i \in 1..Len(row) |-> row[i][2]]

\* pandas.DataFrame(data_list), for dicts that all have the same keys
pd_DataFrame(data_list) ==
    IF data_list = <<>> THEN DataFrame(<<>>, <<>>)
    ELSE DataFrame(RowKeys(data_list[1]),
                   [i \in 1..Len(data_list) |-> RowValues(data_list[i])])

\* the dict appended to data_list for one station
station_row(station) ==
    << <<"station_id", dict_get(station, "station_id")>>,
       <<"latitude", dict_get(station, "lat")>>,
       <<"longitude", dict_get(station, "lon")>>,
       <<"name", dict_get(station, "name")>> >>

create_stations_dataframe(sd) ==
    IF sd = None THEN None
    ELSE LET stations == dict_get(sd, "stations")
         IN  IF stations = None THEN None
             ELSE pd_DataFrame([i \in 1..Len(stations[2]) |->
                                    station_row(stations[2][i])])

StationFields == {"station_id", "lat", "lon", "name"}
FieldValues(k) ==
    CASE k = "station_id" -> {PStr("1"), PStr("2")}
      [] k = "lat" -> {PNum(41)}
      [] k = "lon" -> {PNum(2)}
      [] k = "name" -> {PStr("A")}

StationDicts ==
    UNION {{PDict(f) : f \in {g \in [D -> UNION {FieldValues(k) : k \in D}] :
                                 \A k \in D : g[k] \in FieldValues(k)}}
           : D \in SUBSET StationFields}

StationsDataValues ==
    {None, EmptyDict, PDict([last_updated |-> PNum(0)])}
    \cup {PDict([stations |-> PList(l)]) : l \in SeqsUpTo(StationDicts, MaxStations)}

call_create_stations_dataframe ==
    /\ fpc = "idle"
    /\ \E sd \in StationsDataValues :
          /\ stations_data' = sd
          /\ df' = create_stations_dataframe(sd)
    /\ fpc' = "returned"

\* the caller is done with the result
frame_done ==
    /\ fpc = "returned"
    /\ fpc' = "idle"
    /\ stations_data' = None
    /\ df' = None

FrameInit == ClientInit

FrameNext ==
    \/ call_create_stations_dataframe /\ UNCHANGED <<serverVars, concVars, clientVars, mainVars>>
    \/ frame_done /\ UNCHANGED <<serverVars, concVars, clientVars, mainVars>>

SpecFrame == FrameInit /\ [][FrameNext]_vars


(***************************************************************************)
(* ej1d1: the pybikes wrappers and the __main__ block.  Every call of the  *)
(* library either raises or returns; what it returns may differ from one   *)
(* call to the next.                                                       *)
(***************************************************************************)
Raised == <<"raised", <<>>>>

UpperCase == <<"A", "B", "C", "D", "E", "F", "G", "H", "I", "J", "K", "L", "M",
               "N", "O", "P", "Q", "R", "S", "T", "U", "V", "W", "X", "Y", "Z">>
LowerCase == <<"a", "b", "c", "d", "e", "f", "g", "h", "i", "j", "k", "l", "m",
               "n", "o", "p", "q", "r", "s", "t", "u", "v", "w", "x", "y", "z">>

\* str.lower()
lower(x) ==
    [i \in 1..Len(x) |->
        IF \E j \in 1..Len(UpperCase) : UpperCase[j] = x[i]
        THEN LowerCase[CHOOSE j \in 1..Len(UpperCase) : UpperCase[j] = x[i]]
        ELSE x[i]]

\* the operator "in" on two strings
str_in(sub, x) ==
    \E i \in 0..(Len(x) - Len(sub)) : SubSeq(x, i + 1, i + Len(sub)) = sub

S_Barcelona == <<"B", "a", "r", "c", "e", "l", "o", "n", "a">>
S_Paris == <<"P", "a", "r", "i", "s">>
S_Bicing == <<"B", "i", "c", "i", "n", "g">>
S_Velib == <<"V", "e", "l", "i", "b">>
S_BCN == <<"B", "C", "N">>
S_EBicibox == <<"B", "A", "R", "C", "E", "L", "O", "N", "A", " ", "e">>

\* the systems pybikes may know, in the order of its data files
TagOrder == <<"bicing", "velib", "ebicibox">>
Tags == {TagOrder[i] : i \in 1..Len(TagOrder)}
SystemInfo(tag) ==
    CASE tag = "bicing" -> PDict([city |-> S_Barcelona, name |-> S_Bicing])
      [] tag = "velib" -> PDict([city |-> S_Paris, name |-> S_Velib])
      [] tag = "ebicibox" -> PDict([city |-> S_BCN, name |-> S_EBicibox])

\* pybikes.get_all_data(): raises, or a dict tag -> metadata
AllDataOutcomes ==
    {Raised} \cup {PDict([t \in T |-> SystemInfo(t)]) : T \in SUBSET Tags}

RECURSIVE keys_in_order(_, _)
keys_in_order(d, order) ==
    IF order = <<>> THEN <<>>
    ELSE (IF Head(order) \in DOMAIN d[2] THEN <<Head(order)>> ELSE <<>>)
         \o keys_in_order(d, Tail(order))

\* ej1d1.py: listar_sistemas_disponibles
listar_sistemas_disponibles(all_data) ==
    IF all_data = Raised THEN <<>> ELSE keys_in_order(all_data, TagOrder)

RECURSIVE buscar_loop(_, _, _)
buscar_loop(all_data, ciudad_lower, order) ==
    IF order = <<>> THEN <<>>
    ELSE LET tag == Head(order)
             found ==
                 /\ tag \in DOMAIN all_data[2]
                 /\ LET system_city == lower(all_data[2][tag][2].city)
                        system_name == lower(all_data[2][tag][2].name)
                    IN  str_in(ciudad_lower, system_city)
                        \/ str_in(ciudad_lower, system_name)
         IN  (IF found THEN <<tag>> ELSE <<>>)
             \o buscar_loop(all_data, ciudad_lower, Tail(order))

\* ej1d1.py: buscar_sistema_por_ciudad
buscar_sistema_por_ciudad(ciudad, all_data) ==
    IF all_data = Raised THEN <<>>
    ELSE buscar_loop(all_data, lower(ciudad), TagOrder)

\* ej1d1.py: obtener_info_sistema
obtener_info_sistema(tag, all_data) ==
    IF all_data = Raised THEN None
    ELSE IF tag \in DOMAIN all_data[2] THEN all_data[2][tag]
    ELSE None

\* A pybikes station object
Estacion(n) == [name |-> n, latitude |-> 41, longitude |-> 2, bikes |-> 3, free |-> 4]

\* pybikes.get(tag), sistema.update(), sistema.stations: one of the first two
\* raises, or the list of stations is there
EstacionesOutcomes ==
    {Raised} \cup {PList(l) : l \in SeqsUpTo({Estacion("A"), Estacion("B")}, MaxEstaciones)}

\* ej1d1.py: obtener_estaciones
obtener_estaciones(tag, outcome) ==
    IF outcome = Raised THEN None ELSE outcome

\* ej1d1.py: crear_dataframe_estaciones
crear_dataframe_estaciones(l) ==
    IF l = None \/ l[2] = <<>>
    THEN DataFrame(<<"name", "latitude", "longitude", "bikes", "free">>, <<>>)
    ELSE pd_DataFrame([i \in 1..Len(l[2]) |->
            << <<"name", l[2][i].name>>,
               <<"latitude", l[2][i].latitude>>,
               <<"longitude", l[2][i].longitude>>,
               <<"bikes", l[2][i].bikes>>,
               <<"free", l[2][i].free>> >>])

\* sistemas = listar_sistemas_disponibles(), and the two prints
main_listar ==
    /\ mpc = "start"
    /\ \E all_data \in AllDataOutcomes :
          sistemas' = listar_sistemas_disponibles(all_data)
    /\ mpc' = "listed"
    /\ UNCHANGED <<sistemas_barcelona, info, estaciones, df_estaciones, exception>>

\* sistemas_barcelona = buscar_sistema_por_ciudad("Barcelona"), and the prints
main_buscar ==
    /\ mpc = "listed"
    /\ \E all_data \in AllDataOutcomes :
          sistemas_barcelona' = buscar_sistema_por_ciudad(S_Barcelona, all_data)
    /\ mpc' = "searched"
    /\ UNCHANGED <<sistemas, info, estaciones, df_estaciones, exception>>

\* if "bicing" in sistemas: info = obtener_info_sistema("bicing") and the loop
\* over info.items(), which raises AttributeError on None; else: the message
main_info ==
    /\ mpc = "searched"
    /\ IF \E i \in 1..Len(sistemas) : sistemas[i] = "bicing"
       THEN \E all_data \in AllDataOutcomes :
               /\ info' = obtener_info_sistema("bicing", all_data)
               /\ IF info' = None
                  THEN mpc' = "crashed" /\ exception' = <<"AttributeError">>
                  ELSE mpc' = "info" /\ exception' = None
       ELSE mpc' = "done" /\ UNCHANGED <<info, exception>>
    /\ UNCHANGED <<sistemas, sistemas_barcelona, estaciones, df_estaciones>>

\* estaciones = obtener_estaciones("bicing"); if estaciones: the DataFrame,
\* its statistics and the plot; else: the message
main_estaciones ==
    /\ mpc = "info"
    /\ \E outcome \in EstacionesOutcomes :
          /\ estaciones' = obtener_estaciones("bicing", outcome)
          /\ df_estaciones' =
                IF estaciones' # None /\ estaciones'[2] # <<>>
                THEN crear_dataframe_estaciones(estaciones')
                ELSE None
    /\ mpc' = "done"
    /\ UNCHANGED <<sistemas, sistemas_barcelona, info, exception>>

MainInit == ClientInit

MainNext ==
    \/ main_listar /\ UNCHANGED <<serverVars, concVars, clientVars, frameVars>>
    \/ main_buscar /\ UNCHANGED <<serverVars, concVars, clientVars, frameVars>>
    \/ main_info /\ UNCHANGED <<serverVars, concVars, clientVars, frameVars>>
    \/ main_estaciones /\ UNCHANGED <<serverVars, concVars, clientVars, frameVars>>

SpecMain == MainInit /\ [][MainNext]_vars

(***************************************************************************)
(* Reading a response body back: a JSON object of string and integer       *)
(* members, as json.loads reads what json.dumps wrote.                     *)
(***************************************************************************)
At(s, i) == IF i \in 1..Len(s) THEN s[i] ELSE ""
Bad == [ok |-> FALSE, val |-> <<>>, next |-> 0]
Unescaped(c) == CASE c = "t" -> "\t" [] c = "n" -> "\n" [] c = "r" -> "\r"
                  [] OTHER -> c

RECURSIVE scan_string(_, _, _)
scan_string(s, i, acc) ==
    IF i > Len(s) \/ s[i] \in {"\t", "\n", "\r"} THEN Bad
    ELSE IF s[i] = "\"" THEN [ok |-> TRUE, val |-> JStr(acc), next |-> i + 1]
    ELSE IF s[i] = "\\"
         THEN IF At(s, i + 1) \in {"\"", "\\", "t", "n", "r"}
              THEN scan_string(s, i + 2, Append(acc, Unescaped(s[i + 1])))
              ELSE Bad
    ELSE scan_string(s, i + 1, Append(acc, s[i]))

parse_string(s, i) == IF At(s, i) = "\"" THEN scan_string(s, i + 1, <<>>) ELSE Bad

DigitValue(c) == CHOOSE d \in 0..9 : Digit(d) = c
Digits == {Digit(d) : d \in 0..9}

RECURSIVE scan_int(_, _, _)
scan_int(s, i, n) ==
    IF At(s, i) \in Digits THEN scan_int(s, i + 1, 10 * n + DigitValue(s[i]))
    ELSE [ok |-> TRUE, val |-> JInt(n), next |-> i]

parse_value(s, i) ==
    IF At(s, i) = "\"" THEN parse_string(s, i)
    ELSE IF At(s, i) \in Digits THEN scan_int(s, i, 0)
    ELSE Bad

RECURSIVE parse_members(_, _, _)
parse_members(s, i, acc) ==
    LET k == parse_string(s, i)
    IN  IF ~k.ok \/ At(s, k.next) # ":" \/ At(s, k.next + 1) # " " THEN Bad
        ELSE LET v == parse_value(s, k.next + 2)
                 acc2 == Append(acc, <<k.val.s, v.val>>)
             IN  IF ~v.ok THEN Bad
                 ELSE IF v.next = Len(s) /\ s[v.next] = "}"
                      THEN [ok |-> TRUE, val |-> acc2, next |-> v.next + 1]
                 ELSE IF At(s, v.next) = "," /\ At(s, v.next + 1) = " "
                      THEN parse_members(s, v.next + 2, acc2)
                 ELSE Bad

json_loads(s) ==
    IF s = <<"{", "}">> THEN [ok |-> TRUE, val |-> <<>>, next |-> 3]
    ELSE IF At(s, 1) = "{" THEN parse_members(s, 2, <<>>)
    ELSE Bad

\* The body read back is exactly the object with the given members
IsObject(body, members) ==
    LET r == json_loads(body)
    IN  /\ r.ok
        /\ Len(r.val) = Cardinality(members)
        /\ {r.val[i] : i \in 1..Len(r.val)} = members

\* A request answered by ej1a3's handler through its do_GET
Got1a == pc = "done" /\ handler = "ej1a3" /\ command = "GET"

(***************************************************************************)
(* C1: every GET whose path is exactly "/ip" is answered with status 200,  *)
(* Content-Type application/json and a body that reads back as the JSON    *)
(* object with the single key "ip", whose value is what _get_client_ip     *)
(* returned for that request.                                              *)
(***************************************************************************)
C1_IpRoute ==
    (Got1a /\ path = P_ip) =>
        /\ response.status = 200
        /\ response.ctype = "application/json"
        /\ client_ip # None
        /\ IsObject(response.body, {<<K_ip, JStr(client_ip)>>})

C1_Witness ==
    /\ Got1a /\ path = P_ip
    /\ headers.xff = None /\ headers.xri = <<"\"">>
    /\ response.body = <<"{", "\"", "i", "p", "\"", ":", " ",
                         "\"", "\\", "\"", "\"", "}">>

(***************************************************************************)
(* C2 as stated: every GET whose path P is not "/ip" is answered with 404, *)
(* application/json and the body {"code": 404, "message": "Recurso P no    *)
(* encontrado"}.                                                           *)
(***************************************************************************)
CodeMessage(p) ==
    {<<K_code, JInt(404)>>, <<K_message, JStr(S_Recurso \o p \o S_no_encontrado)>>}

IsFirstElement(x, e) ==
    \E i \in 0..Len(x) :
        /\ e = SubSeq(x, 1, i)
        /\ i = Len(x) \/ x[i + 1] = ","
        /\ \A j \in 1..i : x[j] # ","

\* r is e without its leading and trailing whitespace
IsTrimmed(e, r) ==
    \E a \in 0..Len(e), b \in 0..Len(e) :
        /\ a <= b
        /\ r = SubSeq(e, a + 1, b)
        /\ \A j \in 1..a : e[j] \in Whitespace
        /\ \A j \in (b + 1)..Len(e) : e[j] \in Whitespace
        /\ r # <<>> => (r[1] \notin Whitespace /\ r[Len(r)] \notin Whitespace)
        /\ r = <<>> => a = b

C3_Precedence ==
    (Got1a /\ path = P_ip) =>
        IF headers.xff # None /\ headers.xff # <<>>
        THEN \E e \in SeqsUpTo(FwdChars, Len(headers.xff)) :
                IsFirstElement(headers.xff, e) /\ IsTrimmed(e, client_ip)
        ELSE IF headers.xri # None /\ headers.xri # <<>>
        THEN client_ip = headers.xri
        ELSE client_ip = client_address[1]

C3_Witness ==
    /\ Got1a /\ path = P_ip
    /\ headers.xff = <<"1", " ", ",">> /\ headers.xri = <<"9">>
    /\ client_ip = <<"1">>

(***************************************************************************)
(* C4 as stated: the "ip" value of a GET /ip response is a non-empty       *)
(* string for every combination of header values and every non-empty       *)
(* client host.                                                            *)
(***************************************************************************)
C4_NonEmptyIp ==
    (Got1a /\ path = P_ip) =>
        /\ client_ip # <<>>
        /\ ~IsObject(response.body, {<<K_ip, JStr(<<>>)>>})

(***************************************************************************)
(* C5: the route is chosen by comparing the path verbatim with "/ip": a    *)
(* GET is answered 200 only for that very path, and "/ip?x=1", "/ip/",     *)
(* "/IP" and "/ip " take the 404 branch, which never resolves a client IP. *)
(***************************************************************************)
NearMisses ==
    {P_ip \o <<"?", "x", "=", "1">>, P_ip \o <<"/">>, <<"/", "I", "P">>,
     P_ip \o <<" ">>}

C5_VerbatimRoute ==
    Got1a =>
        /\ response.status = 200 <=> path = P_ip
        /\ path \in NearMisses => (response.status = 404 /\ client_ip = None)

C5_Witness ==
    /\ Got1a /\ path = P_ip \o <<"?", "x", "=", "1">>
    /\ response.status = 404

RequestOf(i) == <<i.command, i.path, i.headers, i.client_address>>

Ok200 == http.kind = "response" /\ http.status_code = 200

DataMember(payload) ==
    IF payload[1] = "dict" /\ "data" \in DOMAIN payload[2]
    THEN payload[2]["data"]
    ELSE None

C8_NeverRaise ==
    /\ ~ret.raised
    /\ ret.fn = "get_user_ip" =>
          ret.value = (IF Ok200 THEN http.text ELSE None)
    /\ ret.fn = "get_stations_data" =>
          ret.value = (IF Ok200 /\ http.payload # Malformed
                       THEN DataMember(http.payload)
                       ELSE None)

C8_Witness ==
    /\ ret.fn = "get_stations_data"
    /\ Ok200 /\ http.payload = Malformed
    /\ ret = [fn |-> "get_stations_data", raised |-> FALSE, value |-> None]

(***************************************************************************)
(* C10 as stated: for every stations_data that is not None and has a       *)
(* "stations" list, of any length, create_stations_dataframe returns a     *)
(* table with exactly the columns station_id, latitude, longitude, name    *)
(* and one row per station in list order, holding that station's           *)
(* station_id, lat, lon and name (None for an absent field); it returns    *)
(* None only when stations_data is None or has no "stations" member.       *)
(***************************************************************************)
HasStations(sd) == sd # None /\ "stations" \in DOMAIN sd[2]

C10_FixedColumns ==
    fpc = "returned" =>
        IF HasStations(stations_data)
        THEN LET l == stations_data[2]["stations"][2]
             IN  /\ df # None
                 /\ df[2].columns = <<"station_id", "latitude", "longitude", "name">>
                 /\ Len(df[2].rows) = Len(l)
                 /\ \A i \in 1..Len(l) :
                       df[2].rows[i] = << dict_get(l[i], "station_id"),
                                          dict_get(l[i], "lat"),
                                          dict_get(l[i], "lon"),
                                          dict_get(l[i], "name") >>
        ELSE df = None

(***************************************************************************)
(* C9 as stated: whatever each library call does, also when a call fails   *)
(* after an earlier one succeeded, the __main__ block checks every result  *)
(* for the sentinel before using it and runs to completion: no exception   *)
(* ends the program.                                                       *)
(***************************************************************************)
C9_MainCompletes ==
    /\ mpc # "crashed"
    /\ exception = None

====
